---- MODULE Spec2Model ----
(***************************************************************************)
(* Model of the Neurality Health voice agent:                              *)
(*   - the MCP tool server's bookAppointment endpoint and its in-memory    *)
(*     idempotency store (src/mcp/server.js), specification SpecMcp;       *)
(*   - one Twilio media-stream session of the webhook bridge: the inbound  *)
(*     frame handler, the 150 ms silence checker, the processUtterance     *)
(*     pipeline, the speech-finished timer and the socket's close          *)
(*     (src/twilio/webhook.js), specifications SpecCall, SpecCallDeep and  *)
(*     SpecCallLoose;                                                      *)
(*   - the session's ConversationAgent: slot extraction, tool calls, reply *)
(*     generation and the audit (src/livekit/agent.js), SpecAgent.         *)
(* Node.js runs every callback to completion, so each action below is one  *)
(* callback, or the part of an async function between two awaits that      *)
(* yield to the event loop.                                                *)
(***************************************************************************)
EXTENDS Integers, Sequences, FiniteSets, TLC

\* ------------------------------------------------------------------ bounds
\* How many HTTP requests the callers of the tool server issue.
MaxReqs == 3
\* How many inbound media frames the peer sends on the socket.
MaxFrames == 2
\* How many times the clock is read at a later instant.
MaxAdvances == 2
\* The same two, for the longer calls of SpecCallDeep.
DeepFrames == 3
DeepAdvances == 3
\* Date.now() when the connection is set up (any positive instant).
ConnectTime == 1000
\* How many utterances the agent is given.
MaxTurns == 2
\* How many malformed events the peer sends in SpecCallLoose.
MaxMalformed == 1

\* Frames the peer sends after the first reply has begun to play.
SpeakFrames == 26

\* Socket events followed while agent.connect() is pending.
MaxMissed == 2

\* ------------------------------------------------------- program constants
SILENCE_MS == 800
MAX_UTTERANCE_MS == 6000
MIN_AUDIO_SAMPLES == 4000
BARGE_IN_THRESHOLD == 3200
FRAME_SAMPLES == 160
TICK_MS == 150
SPEECH_PAD_MS == 200
BIAS == 132
CLIP == 32635
TTS_RATE == 24000
WIRE_RATE == 8000
MIN_TEXT_LEN == 3

\* ------------------------------------------------------------ input values
\* Idempotency keys the callers use.
Keys == {"k1", "k2"}
\* Strings "CONF-" + Math.random().toString(36).slice(2, 10).toUpperCase()
\* can evaluate to: the draw is not checked against earlier draws.
ConfIds == {"CONF-A", "CONF-B"}
ReqIds == 1..MaxReqs
Null == "null"

VARIABLES
    \* ---- MCP tool server
    bookingStore,   \* the Map: idempotency key -> stored result
    schemaOutOk,    \* the results the bookAppointment output schema accepts
    reqs,           \* every HTTP request: its body, its position, its response
    created,        \* history: one [key, id] per record simulateTool created
    overlap,        \* history: pairs of same-key requests in flight together
    \* ---- one media-stream session (the closure of wss.on("connection"))
    limits,         \* the call's length: frames to come, clock readings
    now,            \* Date.now()
    advances,       \* how often the clock has moved (bounded by limits)
    wsState,        \* ws.readyState: "open" or "closed"
    streamSid,      \* null until the start event
    pcmBuffer,      \* the utterance buffer: ids of the buffered frames
    lastMediaAt,
    firstMediaAt,   \* 0 when unset
    processing,
    aiSpeaking,
    aiSpeakingTimeout, \* NoTimer, or the instant the pending timeout is due
    intervalOn,     \* the setInterval handle is live
    tickDue,        \* TICK_MS have passed since the interval's last callback
    pc,             \* where the processUtterance in flight is suspended
    samples,        \* const samples of the latest processUtterance
    \* ---- history of the session (what an observer of the call records)
    inbound,        \* every media frame handled, with the state it arrived in
    stopSeen,       \* the stop event has been handled
    turns,          \* processUtterance runs that passed the processing guard
    firedBy,        \* what triggered the latest of them: "silence" or "max"
    sttCalls,       \* the sample buffers handed to transcribePcm16
    transcript,     \* agent.transcript (the roles)
    outbound,       \* one entry per sendPcm16AsMulaw: reply, frames sent,
                    \* and the instant the timeout armed after it is due
    replyNo,        \* replies whose playback has started
    speechEnd,      \* how each speaking period ended: "barge" or "timer"
    bargeFrames,    \* buffer at the latest barge-in, until it is finalized
    dropped,        \* history: malformed inbound events received
    \* ---- the session's ConversationAgent (src/livekit/agent.js)
    connected,      \* this.connected
    auditWrites,    \* history: this.audit.push calls (writes of the audit file)
    slots,          \* this.slots: slot name -> value, Null when unset or null
    intents,        \* this.intents
    toolTrace,      \* this.toolTrace: one [tool, ok] per answered tool call
    apc,            \* where the agent's processUtterance in flight is suspended
    extracted,      \* <<const extracted>> of the turn in flight, once parsed
    agentTurns,     \* history: agent.processUtterance calls so far
    calls,          \* history: the tool calls of the turn in flight, as settled
    returned,       \* history: agent.processUtterance calls that returned
    roomName,       \* this.roomName
    cpc,            \* where agent.connect() stands: "new", "creating", "done"
    roomOutcome,    \* history: how roomManager.createRoom ended
    missed,         \* history: the socket's events emitted while the session
                    \* had no listener for them
    \* ---- the audio functions of the session, taken alone
    muByte,         \* a byte of an inbound payload
    pcmSample,      \* <<mulawToPcm16's sample for it>>, once decoded
    muBack,         \* <<the byte muLawEncode gives for that sample>>
    sendIn,         \* the arguments and socket state of a sendPcm16AsMulaw call
    sendOut         \* <<the frames it sent>>, once it has run

mcpVars == <<bookingStore, schemaOutOk, reqs, created, overlap>>

\* The session's own state (everything but the clock).
sessionVars == <<wsState, streamSid, pcmBuffer, lastMediaAt, firstMediaAt,
                 processing, aiSpeaking, aiSpeakingTimeout, intervalOn,
                 tickDue, pc, samples>>

historyVars == <<inbound, stopSeen, turns, firedBy, sttCalls, transcript,
                 outbound, replyNo, speechEnd, bargeFrames>>

agentVars == <<connected, auditWrites, slots, intents, toolTrace, apc,
               extracted, agentTurns, calls, returned, roomName, cpc,
               roomOutcome>>

callVars == <<limits, now, advances, sessionVars, historyVars, dropped, agentVars,
              missed>>

\* The audio functions' inputs and results.
audioVars == <<muByte, pcmSample, muBack, sendIn, sendOut>>

vars == <<mcpVars, callVars, audioVars>>

\* ================================================================ MCP server

NoReq == [state |-> "new", key |-> Null, valid |-> FALSE, ret |-> Null,
          status |-> 0, body |-> Null]

InitMcp ==
    /\ bookingStore = <<>>
    /\ schemaOutOk \in SUBSET ConfIds
    /\ reqs = [r \in ReqIds |-> NoReq]
    /\ created = <<>>
    /\ overlap = {}

\* bookingStore.has(key)
Has(store, key) == key \in DOMAIN store

\* A buggy variant: the store is never consulted.
SimulateBookNoCheck(store, key, rnd) ==
    LET result == [confirmation_id |-> rnd, status |-> "booked"]
    IN  [result |-> result,
         store |-> [k \in DOMAIN store \cup {key} |->
                        IF k = key THEN result ELSE store[k]],
         fresh |-> TRUE]

\* simulateTool("bookAppointment", input): the stored result on a known key,
\* else a new result with a random confirmation id, stored under the key.
SimulateBook(store, key, rnd) ==
    IF Has(store, key)
    THEN [result |-> store[key], store |-> store, fresh |-> FALSE]
    ELSE LET result == [confirmation_id |-> rnd, status |-> "booked"]
         IN  [result |-> result,
              store |-> [k \in DOMAIN store \cup {key} |->
                             IF k = key THEN result ELSE store[k]],
              fresh |-> TRUE]

\* validate(schema.output, result)
ValidateOutput(result) == result.confirmation_id \in schemaOutOk

\* A buggy variant: the body is not checked against the input schema.
InputAlwaysAccepted(valid) == FALSE

\* const { ok } = validate(schema.input, req.body); if (!ok) return ...
InputRejected(valid) == ~valid

\* A caller sends POST /bookAppointment; body-parser reads the body before the
\* route handler runs, so several requests can be in flight at once.
SendRequest(r, key, valid) ==
    /\ reqs[r].state = "new"
    /\ reqs' = [reqs EXCEPT ![r] = [NoReq EXCEPT !.state = "inflight",
                                                 !.key = key,
                                                 !.valid = valid]]
    /\ overlap' = overlap \cup
           {{r, q} : q \in {x \in ReqIds : /\ x # r
                                           /\ reqs[x].state = "inflight"
                                           /\ reqs[x].key = key}}
    /\ UNCHANGED <<bookingStore, schemaOutOk, created, callVars, audioVars>>

\* The route handler app.post("/bookAppointment"): one synchronous callback.
PostBookAppointment(r) ==
    /\ reqs[r].state = "inflight"
    /\ IF InputRejected(reqs[r].valid)
       THEN /\ reqs' = [reqs EXCEPT ![r].state = "done", ![r].status = 400,
                                    ![r].body = "errors"]
            /\ UNCHANGED <<bookingStore, created>>
       ELSE \E rnd \in ConfIds :
              LET out == SimulateBook(bookingStore, reqs[r].key, rnd) IN
              /\ bookingStore' = out.store
              /\ created' = IF out.fresh
                            THEN Append(created, [key |-> reqs[r].key,
                                                  id |-> out.result.confirmation_id])
                            ELSE created
              /\ reqs' = [reqs EXCEPT
                            ![r].state = "done",
                            ![r].ret = out.result,
                            ![r].status = IF ValidateOutput(out.result)
                                          THEN 200 ELSE 500,
                            ![r].body = IF ValidateOutput(out.result)
                                        THEN out.result.confirmation_id
                                        ELSE "errors"]
    /\ UNCHANGED <<schemaOutOk, overlap, callVars, audioVars>>

NextMcp ==
    \/ \E r \in ReqIds, key \in Keys, valid \in BOOLEAN : SendRequest(r, key, valid)
    \/ \E r \in ReqIds : PostBookAppointment(r)

\* ======================================================== conversation agent
\* agent.processUtterance(userText) opened up: SpecAgent follows the agent from
\* one await to the next, while the media session's SttReturn/AgentReturn see
\* the same call as one awaited step.

\* A property the JSON does not have, or a variable never assigned.
Undefined == "undefined"

\* JavaScript truthiness of the values the model uses.
Truthy(v) == v # Null /\ v # Undefined /\ v # ""

\* The slots the extraction prompt asks for that the agent reads again.
SlotNames == {"patient_first", "payer", "plan", "location_id"}

\* JSON.parse(extraction.choices[0].message.content): each field a string,
\* null, or missing; the three flags booleans.
Extractions ==
    [patient_first : {Undefined, Null, "Ann", "Bob"},
     payer : {Undefined, Null, "", "Delta", "United"},
     plan : {Undefined, Null, "PPO"},
     location_id : {Null, "LOC1"},
     appointment_type : {Null},
     needs_coverage_check : BOOLEAN,
     needs_availability : BOOLEAN]

\* The extraction call rejects, or its content is not JSON: nothing parsed.
ExtractionError == <<>>

\* What the extraction call can settle with: <<extracted>>, or the error.
ExtractionResults == {<<e>> : e \in Extractions} \cup {ExtractionError}

\* How a fetch to a tool endpoint ends: a 2xx JSON answer, a non-2xx JSON
\* answer, or a rejection (endpoint unreachable, body not JSON).
ToolOutcomes == {"ok", "rejected", "unreachable"}

\* const callId = uuidv4()
CallId == "c-7f3a"

\* const roomName = `call-${callId}`
RoomNameOf(id) == "call-" \o id

\* The keywords simulateTool looks for in the lowercased payer name.
CoveredKeywords == {"delta", "blue", "dental"}

\* input.payer.toLowerCase().includes(w), for the payer names of the model.
Includes(payer, w) == <<payer, w>> \in {<<"Delta", "delta">>}

\* A buggy variant: every payer is in network.
CoveredAlways(payer) == TRUE

\* const covered = ... in simulateTool("checkInsuranceCoverage", input)
Covered(payer) == \E w \in CoveredKeywords : Includes(payer, w)

\* The result of the tool as the agent's trace keeps it: its covered field.
CheckInsuranceCoverage(payer) ==
    IF Covered(payer) THEN "covered" ELSE "not covered"

\* A buggy variant: the reply is returned without being pushed.
TranscriptAfterReplyLost(t) == t

\* this.transcript.push({ role: "agent", text: aiResponse, ts })
TranscriptAfterReply(t) == Append(t, "agent")

\* The agent of a session whose connect() has completed.
InitAgent ==
    /\ connected = TRUE
    /\ auditWrites = 0
    /\ slots = [k \in SlotNames |-> Undefined]
    /\ intents = <<>>
    /\ toolTrace = <<>>
    /\ apc = "idle"
    /\ extracted = <<>>
    /\ agentTurns = 0
    /\ calls = <<>>
    /\ returned = 0
    /\ dropped = 0
    /\ missed = <<>>
    /\ roomName = RoomNameOf(CallId)
    /\ cpc = "done"
    /\ roomOutcome = "created"

\* disconnect(): handleDisconnect() saves the audit when this.connected, and
\* disconnect() saves it again on its next line.
AuditWritesOnDisconnect(conn) == IF conn THEN 2 ELSE 1

\* Object.assign(this.slots, extracted): every property extracted has, null
\* ones included, overwrites the slot.
MergeSlots(s, e) == [k \in SlotNames |-> IF e[k] = Undefined THEN s[k] ELSE e[k]]

\* A buggy variant: the flag alone decides.
CoverageEligibleFlagOnly(e) == e.needs_coverage_check

\* if (extracted.needs_coverage_check && extracted.payer && extracted.plan)
CoverageEligible(e) == e.needs_coverage_check /\ Truthy(e.payer) /\ Truthy(e.plan)

\* if (extracted.needs_availability && extracted.location_id)
AvailabilityEligible(e) == e.needs_availability /\ Truthy(e.location_id)

\* A buggy variant: the intent is pushed without looking.
PushIntentAlways(list, x) == Append(list, x)

\* if (!this.intents.includes(x)) this.intents.push(x)
PushIntent(list, x) ==
    IF \E i \in DOMAIN list : list[i] = x THEN list ELSE Append(list, x)

\* A buggy variant: the catch of the extraction ends the turn.
AfterExtractionErrorAbort == "idle"

\* catch (err) { console.error("Slot extraction error:", err) }: the turn goes
\* on to generateResponse.
AfterExtractionError == "generate"

\* The body callCheckInsurance(extracted.payer, extracted.plan) posts.
CoverageInput(e) ==
    [payer |-> e.payer, plan |-> e.plan, procedure_code |-> "D1110"]

\* The body callGetAvailability(extracted.location_id,
\* extracted.appointment_type) posts, less its date range:
\* appointment_type: appointmentType || "cleaning".
AvailabilityInput(e) ==
    [location_id |-> e.location_id,
     appointment_type |-> IF Truthy(e.appointment_type)
                          THEN e.appointment_type ELSE "cleaning"]

\* A buggy variant: no tool is called after the merge.
AfterMergeNoTools(e) == "generate"

\* The stage after the slots are merged and after each tool call.
AfterMerge(e) ==
    IF CoverageEligible(e) THEN "coverage"
    ELSE IF AvailabilityEligible(e) THEN "availability"
    ELSE "generate"

AfterCoverage(e) == IF AvailabilityEligible(e) THEN "availability" ELSE "generate"

\* What an agent step leaves alone: the tool server and the media session.
AgentFrame ==
    UNCHANGED <<missed, audioVars, mcpVars, limits, now, advances, sessionVars, dropped, inbound,
                stopSeen, turns, firedBy, sttCalls, outbound, replyNo,
                speechEnd, bargeFrames, connected, auditWrites, roomName, cpc,
                roomOutcome>>

\* agent.processUtterance(userText) up to its first await: the user's entry is
\* pushed and the extraction call issued. The caller's processing flag admits
\* one turn at a time.
AgentProcessUtterance ==
    /\ apc = "idle"
    /\ agentTurns < MaxTurns
    /\ agentTurns' = agentTurns + 1
    /\ transcript' = Append(transcript, "user")
    /\ apc' = "extract"
    /\ UNCHANGED <<slots, intents, toolTrace, extracted, calls, returned>>
    /\ AgentFrame

\* The extraction call settles.
ExtractReturn(out) ==
    /\ apc = "extract"
    /\ IF out = ExtractionError
       THEN /\ apc' = AfterExtractionError
            /\ UNCHANGED <<slots, extracted>>
       ELSE /\ slots' = MergeSlots(slots, out[1])
            /\ extracted' = out
            /\ apc' = AfterMerge(out[1])
    /\ UNCHANGED <<intents, toolTrace, transcript, agentTurns, calls, returned>>
    /\ AgentFrame

\* callCheckInsurance's fetch settles: an answer is pushed to the tool trace
\* whatever its status and the intent recorded; a rejection is caught.
CoverageReturn(outcome) ==
    /\ apc = "coverage"
    /\ IF outcome = "unreachable"
       THEN UNCHANGED <<toolTrace, intents>>
       ELSE /\ toolTrace' = Append(toolTrace,
                   [tool |-> "check_insurance_coverage",
                    output |-> IF outcome = "ok"
                               THEN CheckInsuranceCoverage(extracted[1].payer)
                               ELSE "errors",
                    ok |-> outcome = "ok"])
            /\ intents' = PushIntent(intents, "coverage_check")
    /\ calls' = Append(calls, [tool |-> "check_insurance_coverage",
                               input |-> CoverageInput(extracted[1]),
                               outcome |-> outcome])
    /\ apc' = AfterCoverage(extracted[1])
    /\ UNCHANGED <<slots, extracted, transcript, agentTurns, returned>>
    /\ AgentFrame

\* callGetAvailability's fetch settles.
AvailabilityReturn(outcome) ==
    /\ apc = "availability"
    /\ IF outcome = "unreachable"
       THEN UNCHANGED <<toolTrace, intents>>
       ELSE /\ toolTrace' = Append(toolTrace,
                   [tool |-> "get_provider_availability",
                    output |-> IF outcome = "ok" THEN "slots" ELSE "errors",
                    ok |-> outcome = "ok"])
            /\ intents' = PushIntent(intents, "availability")
    /\ calls' = Append(calls, [tool |-> "get_provider_availability",
                               input |-> AvailabilityInput(extracted[1]),
                               outcome |-> outcome])
    /\ apc' = "generate"
    /\ UNCHANGED <<slots, extracted, transcript, agentTurns, returned>>
    /\ AgentFrame

\* generateResponse settles: the reply is pushed to the transcript and
\* returned, or the rejection leaves processUtterance.
GenerateReturn(ok) ==
    /\ apc = "generate"
    /\ apc' = "idle"
    /\ extracted' = <<>>
    /\ transcript' = IF ok THEN TranscriptAfterReply(transcript) ELSE transcript
    /\ returned' = IF ok THEN returned + 1 ELSE returned
    /\ calls' = <<>>
    /\ UNCHANGED <<slots, intents, toolTrace, agentTurns>>
    /\ AgentFrame

\* ---- the agent's connection (agent.connect, roomManager.createRoom)

\* How roomService.createRoom can settle: the room is created, the service
\* reports that it already exists, it fails with another error, or it rejects
\* with null or undefined (no error object to read a message from).
RoomServiceOutcomes == {"created", "exists", "error", "novalue"}

\* A promise that rejects.
Rejects == "rejects"

\* roomManager.createRoom(callId) once roomService.createRoom has settled: the
\* try and both branches of the catch return roomName; reading err.message of
\* null or undefined throws inside the catch, and createRoom rejects.
CreateRoomSettles(id, outcome) ==
    IF outcome = "novalue" THEN Rejects ELSE RoomNameOf(id)

\* A buggy variant: connect() has no catch, a rejection leaves it unconnected.
ConnectSettlesNoCatch(id, r) ==
    IF r = Rejects
    THEN [roomName |-> Null, connected |-> FALSE]
    ELSE [roomName |-> r, connected |-> TRUE]

\* connect() once createRoom has settled: the try keeps the name returned, the
\* catch builds it; both set this.connected.
ConnectSettles(id, r) ==
    IF r = Rejects
    THEN [roomName |-> RoomNameOf(id), connected |-> TRUE]
    ELSE [roomName |-> r, connected |-> TRUE]

\* What the connection steps leave alone.
ConnectFrame ==
    UNCHANGED <<missed, audioVars, mcpVars, limits, now, advances, sessionVars, historyVars,
                dropped, auditWrites, slots, intents, toolTrace, apc,
                extracted, agentTurns, calls, returned>>

\* new ConversationAgent(callId).
InitNewAgent ==
    /\ connected = FALSE
    /\ auditWrites = 0
    /\ slots = [k \in SlotNames |-> Undefined]
    /\ intents = <<>>
    /\ toolTrace = <<>>
    /\ apc = "idle"
    /\ extracted = <<>>
    /\ agentTurns = 0
    /\ calls = <<>>
    /\ returned = 0
    /\ dropped = 0
    /\ missed = <<>>
    /\ roomName = Null
    /\ cpc = "new"
    /\ roomOutcome = "none"

\* agent.connect() up to its first wait. In mock mode (the room manager's
\* constructor failed) createRoom returns at once and connect() completes in
\* the same turn of the event loop; else roomService.createRoom is awaited.
ConnectStep(enabled) ==
    /\ cpc = "new"
    /\ IF enabled
       THEN /\ cpc' = "creating"
            /\ UNCHANGED <<roomName, connected, roomOutcome>>
       ELSE LET c == ConnectSettles(CallId, RoomNameOf(CallId)) IN
            /\ cpc' = "done"
            /\ roomName' = c.roomName
            /\ connected' = c.connected
            /\ roomOutcome' = "mock"

\* The same of an agent taken alone.
Connect(enabled) == ConnectStep(enabled) /\ ConnectFrame

\* roomService.createRoom settles; createRoom and connect() run to their end.
CreateRoomStep(outcome) ==
    /\ cpc = "creating"
    /\ LET c == ConnectSettles(CallId, CreateRoomSettles(CallId, outcome)) IN
       /\ roomName' = c.roomName
       /\ connected' = c.connected
    /\ cpc' = "done"
    /\ roomOutcome' = outcome

\* The same of an agent taken alone.
CreateRoomReturn(outcome) == CreateRoomStep(outcome) /\ ConnectFrame

\* agent.disconnect() up to its await of deleteRoom, called once connect() has
\* completed (the close handler is registered after the await of connect).
Disconnect ==
    /\ cpc = "done"
    /\ connected
    /\ connected' = FALSE
    /\ auditWrites' = auditWrites + AuditWritesOnDisconnect(connected)
    /\ UNCHANGED <<missed, audioVars, mcpVars, limits, now, advances, sessionVars, historyVars,
                   dropped, slots, intents, toolTrace, apc, extracted,
                   agentTurns, calls, returned, roomName, cpc, roomOutcome>>

\* The extraction results of the turns the connection is followed through:
\* a failure, and a result with no field and no request for a tool.
PlainExtractions ==
    {ExtractionError,
     <<[patient_first |-> Undefined, payer |-> Undefined, plan |-> Undefined,
        location_id |-> Null, appointment_type |-> Null,
        needs_coverage_check |-> FALSE,
        needs_availability |-> FALSE]>>}

\* An agent from its construction on: it connects, takes turns once
\* connected (the message handler is registered after the await of connect),
\* and disconnects.
NextAgentLife ==
    \/ \E enabled \in BOOLEAN : Connect(enabled)
    \/ \E outcome \in RoomServiceOutcomes : CreateRoomReturn(outcome)
    \/ cpc = "done" /\ AgentProcessUtterance
    \/ \E out \in PlainExtractions : cpc = "done" /\ ExtractReturn(out)
    \/ \E ok \in BOOLEAN : cpc = "done" /\ GenerateReturn(ok)
    \/ Disconnect

\* Extractions that vary what the tool calls are made from, the appointment
\* type included.
ToolExtractions ==
    [patient_first : {Undefined},
     payer : {Null, "", "Delta"},
     plan : {Undefined, "PPO"},
     location_id : {Null, "", "LOC1"},
     appointment_type : {Undefined, Null, "", "filling"},
     needs_coverage_check : BOOLEAN,
     needs_availability : BOOLEAN]

\* The agent's turns over those extractions.
NextAgentTools ==
    \/ AgentProcessUtterance
    \/ \E e \in ToolExtractions : ExtractReturn(<<e>>)
    \/ ExtractReturn(ExtractionError)
    \/ \E outcome \in ToolOutcomes : CoverageReturn(outcome)
    \/ \E outcome \in ToolOutcomes : AvailabilityReturn(outcome)
    \/ \E ok \in BOOLEAN : GenerateReturn(ok)

NextAgent ==
    \/ AgentProcessUtterance
    \/ \E out \in ExtractionResults : ExtractReturn(out)
    \/ \E outcome \in ToolOutcomes : CoverageReturn(outcome)
    \/ \E outcome \in ToolOutcomes : AvailabilityReturn(outcome)
    \/ \E ok \in BOOLEAN : GenerateReturn(ok)

\* ============================================================ media session

\* Sample counts of the inbound media payloads. The handler accepts a payload
\* of any length (Twilio sends 160 samples at a time); a large payload stands
\* for a run of frames handled back to back. 1600 + 1600 is the barge-in
\* threshold itself, 3600 lies between it and MIN_AUDIO_SAMPLES, 4000 is
\* MIN_AUDIO_SAMPLES itself.
FrameSizes == {1600, 3600, 4000}
\* How far the clock moves between two readings.
Delays == {SILENCE_MS, MAX_UTTERANCE_MS}
\* What transcribePcm16 can return: "" (also its catch branch), a near-empty
\* text, a text.
Transcripts == {"", "ok", "book it"}
\* Lengths of the PCM textToAudio can return (24 kHz); NoAudio is its null.
TtsSamples == {4800, 24000}
NoAudio == -1
NoTimer == 0

RECURSIVE SumSamples(_, _)
\* pcmBuffer.reduce((sum, buf) => sum + buf.length, 0), and concatInt16's total.
SumSamples(frames, buf) ==
    IF buf = <<>> THEN 0
    ELSE frames[Head(buf)].n + SumSamples(frames, Tail(buf))

\* The turn state the flags encode.
TurnState ==
    IF ~Truthy(streamSid) THEN "idle"
    ELSE IF aiSpeaking THEN "speaking"
    ELSE IF processing THEN "thinking"
    ELSE "listening"

InitCall ==
    /\ limits \in {[frames |-> MaxFrames, advances |-> MaxAdvances],
                   [frames |-> DeepFrames, advances |-> DeepAdvances]}
    /\ now = ConnectTime
    /\ advances = 0
    /\ wsState = "open"
    /\ streamSid = Null
    /\ pcmBuffer = <<>>
    /\ lastMediaAt = ConnectTime
    /\ firstMediaAt = 0
    /\ processing = FALSE
    /\ aiSpeaking = FALSE
    /\ aiSpeakingTimeout = NoTimer
    /\ intervalOn = TRUE
    /\ tickDue = FALSE
    /\ pc = "none"
    /\ samples = <<>>
    /\ inbound = <<>>
    /\ stopSeen = FALSE
    /\ turns = 0
    /\ firedBy = "none"
    /\ sttCalls = <<>>
    /\ transcript = <<>>
    /\ outbound = <<>>
    /\ replyNo = 0
    /\ speechEnd = <<>>
    /\ bargeFrames = <<>>

\* Time passes between two callbacks.
Advance(d) ==
    /\ advances < limits.advances
    /\ advances' = advances + 1
    /\ now' = now + d
    /\ tickDue' = (intervalOn /\ d >= TICK_MS)
    /\ UNCHANGED <<missed, audioVars, mcpVars, agentVars, dropped, limits, wsState, streamSid, pcmBuffer, lastMediaAt,
                   firstMediaAt, processing, aiSpeaking, aiSpeakingTimeout,
                   intervalOn, pc, samples, historyVars>>

\* case "start"
StartEvent ==
    /\ wsState = "open"
    /\ ~Truthy(streamSid)
    /\ streamSid' = "MZ1"
    /\ UNCHANGED <<missed, audioVars, mcpVars, agentVars, dropped, limits, now, advances, wsState, pcmBuffer, lastMediaAt,
                   firstMediaAt, processing, aiSpeaking, aiSpeakingTimeout,
                   intervalOn, tickDue, pc, samples, historyVars>>

\* case "stop": logs only. The peer stops a stream it has started.
StopEvent ==
    /\ wsState = "open"
    /\ streamSid # Null
    /\ ~stopSeen
    /\ stopSeen' = TRUE
    /\ UNCHANGED <<missed, audioVars, mcpVars, agentVars, dropped, limits, now, advances, sessionVars, inbound, turns, firedBy,
                   sttCalls, transcript, outbound, replyNo, speechEnd,
                   bargeFrames>>

\* A buggy variant: the threshold itself fires barge-in.
BargeInFiresInclusive(totalSamples) == totalSamples >= BARGE_IN_THRESHOLD

\* if (totalSamples > BARGE_IN_THRESHOLD)
BargeInFires(totalSamples) == totalSamples > BARGE_IN_THRESHOLD

\* A buggy variant: the timeout is left pending.
KeepSpeechTimer(handle) == handle

\* if (aiSpeakingTimeout) { clearTimeout(aiSpeakingTimeout); aiSpeakingTimeout = null; }
CancelSpeechTimer(handle) == NoTimer

\* pcmBuffer.push(pcm16) of the barge-in branch
BufferWhileSpeaking(buf, id) == Append(buf, id)

\* A buggy variant: barge-in starts the new utterance from an empty buffer.
BufferAfterBargeInCleared(buf) == <<>>

\* "Continue buffering for user input": barge-in leaves pcmBuffer as it is.
BufferAfterBargeIn(buf) == buf

\* case "media": a payload of n samples.
MediaEvent(n) ==
    /\ wsState = "open"
    /\ Len(inbound) < limits.frames
    /\ LET id == Len(inbound) + 1
           frame == [n |-> n, turn |-> TurnState,
                     live |-> streamSid # Null /\ ~stopSeen,
                     reply |-> IF aiSpeaking THEN replyNo ELSE 0]
           frames == Append(inbound, frame)
       IN
       /\ inbound' = frames
       /\ IF aiSpeaking
          THEN LET buf == BufferWhileSpeaking(pcmBuffer, id) IN
               IF BargeInFires(SumSamples(frames, buf))
                  THEN /\ pcmBuffer' = BufferAfterBargeIn(buf)
                       /\ aiSpeaking' = FALSE
                       /\ aiSpeakingTimeout' = CancelSpeechTimer(aiSpeakingTimeout)
                       /\ firstMediaAt' = now
                       /\ lastMediaAt' = now
                       /\ speechEnd' = Append(speechEnd, "barge")
                       /\ bargeFrames' = buf
                  ELSE /\ pcmBuffer' = buf
                       /\ UNCHANGED <<aiSpeaking, aiSpeakingTimeout, firstMediaAt,
                                      lastMediaAt, speechEnd, bargeFrames>>
          ELSE /\ lastMediaAt' = now
               /\ firstMediaAt' = IF firstMediaAt = 0 THEN now ELSE firstMediaAt
               /\ pcmBuffer' = Append(pcmBuffer, id)
               /\ UNCHANGED <<aiSpeaking, aiSpeakingTimeout, speechEnd,
                              bargeFrames>>
    /\ UNCHANGED <<missed, audioVars, mcpVars, agentVars, dropped, limits, now, advances, wsState, streamSid, processing,
                   intervalOn, tickDue, pc, samples, stopSeen, turns, firedBy,
                   sttCalls, transcript, outbound, replyNo>>


\* A buggy variant of the silence checker: thresholds compared with >=.
FinalizeReasonInclusive(t, last, first) ==
    IF t - last >= SILENCE_MS THEN "silence"
    ELSE IF first # 0 /\ t - (IF first # 0 THEN first ELSE t) >= MAX_UTTERANCE_MS
         THEN "max"
         ELSE "none"

\* The silence checker's decision on a non-empty buffer:
\*   silenceDuration = now - lastMediaAt
\*   utteranceDuration = now - (firstMediaAt || now)
\*   if (silenceDuration > SILENCE_MS) ... else if (firstMediaAt && utteranceDuration > MAX_UTTERANCE_MS) ...
FinalizeReason(t, last, first) ==
    IF t - last > SILENCE_MS THEN "silence"
    ELSE IF first # 0 /\ t - (IF first # 0 THEN first ELSE t) > MAX_UTTERANCE_MS
         THEN "max"
         ELSE "none"

\* A buggy variant: no floor on the utterance length.
TooShortNever(n) == FALSE

\* if (samples.length < MIN_AUDIO_SAMPLES)
TooShort(n) == n < MIN_AUDIO_SAMPLES

\* A buggy variant: the flag is reset after the try block, not in a finally,
\* so a return inside the try leaves it as it is.
ProcessingAfterReturn(p) == p

\* finally { processing = false; ... }
ProcessingAfterFinally(p) == FALSE

\* A buggy variant: processUtterance has no guard.
AlreadyProcessingNever(p) == FALSE

\* if (processing) return;
AlreadyProcessing(p) == p

\* processUtterance() up to its first await, called by the silence checker:
\* the processing guard, the buffer taken and cleared, the short-audio return
\* (through finally), else transcribePcm16 called.
ProcessUtterance(by) ==
    IF AlreadyProcessing(processing)
    THEN UNCHANGED <<pcmBuffer, firstMediaAt, processing, pc, samples, turns,
                     firedBy, sttCalls, bargeFrames>>
    ELSE /\ turns' = turns + 1
         /\ firedBy' = by
         /\ samples' = pcmBuffer
         /\ pcmBuffer' = <<>>
         /\ bargeFrames' = <<>>
         /\ IF TooShort(SumSamples(inbound, pcmBuffer))
            THEN /\ processing' = ProcessingAfterFinally(TRUE)
                 /\ firstMediaAt' = 0
                 /\ UNCHANGED <<pc, sttCalls>>
            ELSE /\ processing' = TRUE
                 /\ pc' = "stt"
                 /\ sttCalls' = Append(sttCalls, pcmBuffer)
                 /\ UNCHANGED firstMediaAt

\* A buggy variant: the checker does not look at aiSpeaking.
CheckerIgnoresSpeaking(sid, speaking) == ~Truthy(sid)

\* if (!streamSid) return; if (aiSpeaking) return;
CheckerReturnsEarly(sid, speaking) == ~Truthy(sid) \/ speaking

\* One callback of setInterval(..., 150).
Tick ==
    /\ intervalOn
    /\ tickDue
    /\ tickDue' = FALSE
    /\ IF CheckerReturnsEarly(streamSid, aiSpeaking) \/ pcmBuffer = <<>>
          \/ FinalizeReason(now, lastMediaAt, firstMediaAt) = "none"
       THEN UNCHANGED <<pcmBuffer, firstMediaAt, processing, pc, samples, turns,
                        firedBy, sttCalls, bargeFrames>>
       ELSE ProcessUtterance(FinalizeReason(now, lastMediaAt, firstMediaAt))
    /\ UNCHANGED <<missed, audioVars, mcpVars, agentVars, dropped, limits, now, advances, wsState, streamSid, lastMediaAt,
                   aiSpeaking, aiSpeakingTimeout, intervalOn, inbound, stopSeen,
                   transcript, outbound, replyNo, speechEnd>>

\* A buggy variant: any transcript is passed on.
NoUtteranceNever(text) == FALSE

\* if (!text || text.length < 3)
NoUtterance(text) == Len(text) < MIN_TEXT_LEN

\* transcribePcm16 resolves: the empty-transcript return, else
\* agent.processUtterance(text) is called and pushes the user's entry.
SttReturn(text) ==
    /\ pc = "stt"
    /\ IF NoUtterance(text)
       THEN /\ pc' = "none"
            /\ processing' = ProcessingAfterFinally(processing)
            /\ firstMediaAt' = 0
            /\ UNCHANGED transcript
       ELSE /\ pc' = "agent"
            /\ transcript' = Append(transcript, "user")
            /\ UNCHANGED <<processing, firstMediaAt>>
    /\ UNCHANGED <<missed, audioVars, mcpVars, agentVars, dropped, limits, now, advances, wsState, streamSid, pcmBuffer,
                   lastMediaAt, aiSpeaking, aiSpeakingTimeout, intervalOn,
                   tickDue, samples, inbound, stopSeen, turns, firedBy,
                   sttCalls, outbound, replyNo, speechEnd, bargeFrames>>

\* agent.processUtterance settles: with the reply (pushed to the transcript;
\* textToAudio is called), or rejected (generateResponse throws), which
\* processUtterance catches.
AgentReturn(ok) ==
    /\ pc = "agent"
    /\ IF ok
       THEN /\ pc' = "tts"
            /\ transcript' = Append(transcript, "agent")
            /\ UNCHANGED <<processing, firstMediaAt>>
       ELSE /\ pc' = "none"
            /\ processing' = ProcessingAfterFinally(processing)
            /\ firstMediaAt' = 0
            /\ UNCHANGED transcript
    /\ UNCHANGED <<missed, audioVars, mcpVars, agentVars, dropped, limits, now, advances, wsState, streamSid, pcmBuffer,
                   lastMediaAt, aiSpeaking, aiSpeakingTimeout, intervalOn,
                   tickDue, samples, inbound, stopSeen, turns, firedBy,
                   sttCalls, outbound, replyNo, speechEnd, bargeFrames>>

\* sendPcm16AsMulaw's resampling: outLen = Math.floor(int16.length / ratio)
ResampledLen(n, sampleRate) ==
    IF sampleRate # WIRE_RATE THEN (n * WIRE_RATE) \div sampleRate ELSE n

\* A buggy variant: the socket's state is not looked at.
FramesSentUnchecked(n, sampleRate, readyState) ==
    ResampledLen(n, sampleRate) \div FRAME_SAMPLES

\* The frames sendPcm16AsMulaw sends: every complete 160-sample frame while
\* ws.readyState === 1, none otherwise (the loop breaks at its first frame).
FramesSent(n, sampleRate, readyState) ==
    IF readyState = "open"
    THEN ResampledLen(n, sampleRate) \div FRAME_SAMPLES
    ELSE 0

\* const durationMs = (audioResult.int16.length / audioResult.sampleRate) * 1000
DurationMs(n, sampleRate) == (n * 1000) \div sampleRate

\* textToAudio resolves: null ends the turn; else aiSpeaking is set, the buffer
\* cleared, every frame sent, the speech-finished timeout armed, and finally
\* runs, all before the event loop gets control back.
TtsReturn(audio) ==
    /\ pc = "tts"
    /\ pc' = "none"
    /\ processing' = ProcessingAfterFinally(processing)
    /\ firstMediaAt' = 0
    /\ IF audio = NoAudio
       THEN UNCHANGED <<pcmBuffer, aiSpeaking, aiSpeakingTimeout, outbound,
                        replyNo>>
       ELSE /\ aiSpeaking' = TRUE
            /\ pcmBuffer' = <<>>
            /\ replyNo' = replyNo + 1
            /\ outbound' = Append(outbound,
                                  [reply |-> replyNo + 1,
                                   frames |-> FramesSent(audio, TTS_RATE, wsState),
                                   due |-> now + DurationMs(audio, TTS_RATE)
                                               + SPEECH_PAD_MS])
            /\ aiSpeakingTimeout' = now + DurationMs(audio, TTS_RATE) + SPEECH_PAD_MS
    /\ UNCHANGED <<missed, audioVars, mcpVars, agentVars, dropped, limits, now, advances, wsState, streamSid, lastMediaAt,
                   intervalOn, tickDue, samples, inbound, stopSeen, turns,
                   firedBy, sttCalls, transcript, speechEnd, bargeFrames>>

\* A buggy variant: the callback leaves the handle in place.
HandleAfterTimeoutKept(handle) == handle

\* aiSpeakingTimeout = null in the timeout's callback
HandleAfterTimeout(handle) == NoTimer

\* The callback of setTimeout(..., durationMs + 200).
SpeechTimer ==
    /\ aiSpeakingTimeout # NoTimer
    /\ now >= aiSpeakingTimeout
    /\ aiSpeaking' = FALSE
    /\ aiSpeakingTimeout' = HandleAfterTimeout(aiSpeakingTimeout)
    /\ speechEnd' = Append(speechEnd, "timer")
    /\ UNCHANGED <<missed, audioVars, mcpVars, agentVars, dropped, limits, now, advances, wsState, streamSid, pcmBuffer,
                   lastMediaAt, firstMediaAt, processing, intervalOn, tickDue,
                   pc, samples, inbound, stopSeen, turns, firedBy, sttCalls,
                   transcript, outbound, replyNo, bargeFrames>>

\* The socket closes: the two close handlers run (agent.disconnect(), which
\* writes the audit up to its await of deleteRoom, and clearInterval(interval));
\* nothing else of the session is touched.
Close ==
    /\ wsState = "open"
    /\ wsState' = "closed"
    /\ intervalOn' = FALSE
    /\ tickDue' = FALSE
    /\ connected' = FALSE
    /\ auditWrites' = auditWrites + AuditWritesOnDisconnect(connected)
    /\ UNCHANGED <<missed, audioVars, mcpVars, dropped, limits, now, advances, streamSid, pcmBuffer,
                   lastMediaAt, firstMediaAt, processing, aiSpeaking,
                   aiSpeakingTimeout, pc, samples, historyVars, slots, intents,
                   toolTrace, apc, extracted, agentTurns, calls, returned,
                   roomName, cpc, roomOutcome>>

\* The inbound messages that are not a well-formed start, media or stop:
\* text that is not JSON, a media event without media.payload, a start event
\* without its start object, a start event whose start object has no
\* streamSid.
MalformedKinds == {"unparseable", "media_no_payload", "start_no_object",
                   "start_no_sid"}

\* streamSid after ws.on("message") has handled a malformed event: JSON.parse,
\* data.media.payload and data.start.streamSid throw into the catch before
\* anything is assigned; a start object without streamSid does not throw, and
\* streamSid = ws._streamSid = undefined.
StreamSidAfterMalformed(kind, sid) ==
    IF kind = "start_no_sid" THEN Undefined ELSE sid

\* ws.on("message") on a malformed event.
MalformedEvent(kind) ==
    /\ wsState = "open"
    /\ dropped < MaxMalformed
    /\ dropped' = dropped + 1
    /\ streamSid' = StreamSidAfterMalformed(kind, streamSid)
    /\ UNCHANGED <<missed, audioVars, mcpVars, agentVars, limits, now, advances, wsState, pcmBuffer,
                   lastMediaAt, firstMediaAt, processing, aiSpeaking,
                   aiSpeakingTimeout, intervalOn, tickDue, pc, samples,
                   historyVars>>

NextCall ==
    \/ \E d \in Delays : Advance(d)
    \/ StartEvent
    \/ \E n \in FrameSizes : MediaEvent(n)
    \/ StopEvent
    \/ Tick
    \/ \E text \in Transcripts : SttReturn(text)
    \/ \E ok \in BOOLEAN : AgentReturn(ok)
    \/ \E audio \in TtsSamples \cup {NoAudio} : TtsReturn(audio)
    \/ SpeechTimer
    \/ Close

\* ---- the connection handler around its await of agent.connect()

\* The events a socket emits to its listeners.
SocketEvents == {"start", "media", "close"}

Missed(kind) == \E i \in DOMAIN missed : missed[i] = kind

\* The socket emits an event while wss.on("connection") is suspended at its
\* await of agent.connect(): ws.on("message") and ws.on("close") have not been
\* called yet, so the emitter has no listener for it and nothing runs. The
\* peer sends one start and the socket closes once.
EarlyEvent(kind) ==
    /\ cpc = "creating"
    /\ wsState = "open"
    /\ Len(missed) < MaxMissed
    /\ kind = "start" => ~Missed("start")
    /\ missed' = Append(missed, kind)
    /\ wsState' = IF kind = "close" THEN "closed" ELSE wsState
    /\ UNCHANGED <<audioVars, mcpVars, limits, now, advances, streamSid,
                   pcmBuffer, lastMediaAt, firstMediaAt, processing,
                   aiSpeaking, aiSpeakingTimeout, intervalOn, tickDue, pc,
                   samples, historyVars, dropped, agentVars>>

\* The handler after the await: the session's variables are declared
\* (lastMediaAt = Date.now()), the message and close listeners registered
\* and the silence checker's interval set.
RegisterHandlers ==
    /\ lastMediaAt' = now
    /\ intervalOn' = TRUE

\* What the connection handler leaves alone.
SetupFrame ==
    UNCHANGED <<missed, audioVars, mcpVars, limits, now, advances, wsState,
                streamSid, pcmBuffer, firstMediaAt, processing, aiSpeaking,
                aiSpeakingTimeout, tickDue, pc, samples, historyVars, dropped,
                auditWrites, slots, intents, toolTrace, apc, extracted,
                agentTurns, calls, returned>>

\* wss.on("connection") up to its first wait: agent.connect() is called; in
\* mock mode it completes in the same turn of the event loop and the handler
\* runs to its end.
AcceptConnection(enabled) ==
    /\ ConnectStep(enabled)
    /\ IF enabled
       THEN UNCHANGED <<lastMediaAt, intervalOn>>
       ELSE RegisterHandlers
    /\ SetupFrame

\* roomService.createRoom settles: connect() completes and the handler runs
\* to its end.
SetupResumes(outcome) ==
    /\ CreateRoomStep(outcome)
    /\ RegisterHandlers
    /\ SetupFrame

\* A session from the acceptance of its connection on: the events that
\* arrive once the listeners are registered are handled as in NextCall.
NextCallSetup ==
    \/ \E enabled \in BOOLEAN : AcceptConnection(enabled)
    \/ \E outcome \in RoomServiceOutcomes : SetupResumes(outcome)
    \/ \E kind \in SocketEvents : EarlyEvent(kind)
    \/ \E d \in Delays : Advance(d)
    \/ cpc = "done" /\ ~Missed("start") /\ StartEvent
    \/ \E n \in FrameSizes : cpc = "done" /\ MediaEvent(n)
    \/ cpc = "done" /\ StopEvent
    \/ Tick
    \/ \E text \in Transcripts : SttReturn(text)
    \/ \E ok \in BOOLEAN : AgentReturn(ok)
    \/ \E audio \in TtsSamples \cup {NoAudio} : TtsReturn(audio)
    \/ SpeechTimer
    \/ cpc = "done" /\ Close

\* ============================================================ audio functions
\* mulawToPcm16, muLawEncode and sendPcm16AsMulaw as functions of their inputs.

Bytes == 0 .. 255

\* int16.length of the audio handed to sendPcm16AsMulaw, around the frame
\* boundaries at either sample rate.
SampleCounts == {0, 159, 160, 161, 477, 480, 483, 960, 1437, 1440}

SendInputs == [len : SampleCounts, rate : {WIRE_RATE, TTS_RATE}, open : BOOLEAN]

RECURSIVE Pow2(_)
\* 1 << e
Pow2(e) == IF e = 0 THEN 1 ELSE 2 * Pow2(e - 1)

\* Storing a number in an Int16Array: wrapped to 16 bits, two's complement.
ToInt16(x) == ((x + 32768) % 65536) - 32768

\* A buggy variant of the decoder: the bias is not taken off again.
MulawToPcm16NoBias(b) ==
    LET uVal == 255 - b
        t == (((uVal % 16) * 8) + BIAS) * Pow2((uVal \div 16) % 8)
    IN  ToInt16(IF uVal >= 128 THEN -t ELSE t)

\* mulawToPcm16, for one byte:
\*   uVal = ~b & 0xff; t = ((uVal & 0x0F) << 3) + 0x84;
\*   t <<= (uVal & 0x70) >>> 4; t -= 0x84; out = (uVal & 0x80) ? -t : t
MulawToPcm16(b) ==
    LET uVal == 255 - b
        t == (((uVal % 16) * 8) + BIAS) * Pow2((uVal \div 16) % 8) - BIAS
    IN  ToInt16(IF uVal >= 128 THEN -t ELSE t)

\* The segment of a biased magnitude: the position of its highest set bit,
\* counted from bit 7.
Segment(mag) == CHOOSE e \in 0 .. 7 : mag >= Pow2(e + 7) /\ mag < Pow2(e + 8)

\* muLawEncode (the mulaw-js package), for one sample: the G.711 mu-law
\* encoder. The magnitude is clipped, biased, and cut into sign, segment and
\* four mantissa bits; the byte is their complement.
MuLawEncode(pcm) ==
    LET sign == IF pcm < 0 THEN 128 ELSE 0
        abs == IF pcm < 0 THEN -pcm ELSE pcm
        mag == (IF abs > CLIP THEN CLIP ELSE abs) + BIAS
        e == Segment(mag)
        mantissa == (mag \div Pow2(e + 3)) % 16
    IN  255 - (sign + e * 16 + mantissa)

\* A buggy variant: an incomplete last slice is sent too.
SendsSliceAny(sliceLen) == sliceLen > 0

\* if (slice.length < FRAME_SAMPLES) break;
SendsSlice(sliceLen) == sliceLen >= FRAME_SAMPLES

RECURSIVE SendLoop(_, _, _)
\* The for loop of sendPcm16AsMulaw from index i on: src.subarray(i, i + 160)
\* is sent while it is a whole frame and the socket is open. A frame is kept
\* as the indices of its first and last sample in src.
SendLoop(i, srcLen, open) ==
    IF i >= srcLen THEN <<>>
    ELSE LET end == IF i + FRAME_SAMPLES < srcLen THEN i + FRAME_SAMPLES ELSE srcLen IN
         IF ~SendsSlice(end - i) \/ ~open THEN <<>>
         ELSE <<[first |-> i, last |-> end - 1]>> \o SendLoop(i + FRAME_SAMPLES, srcLen, open)

\* No audio function is in use.
InitAudioIdle ==
    /\ muByte = 255
    /\ pcmSample = <<>>
    /\ muBack = <<>>
    /\ sendIn = [len |-> 0, rate |-> WIRE_RATE, open |-> TRUE]
    /\ sendOut = <<>>

AudioFrame == UNCHANGED <<mcpVars, callVars, muByte, sendIn>>

\* mulawToPcm16 on the byte.
Decode ==
    /\ pcmSample = <<>>
    /\ pcmSample' = <<MulawToPcm16(muByte)>>
    /\ UNCHANGED <<muBack, sendOut>>
    /\ AudioFrame

\* muLawEncode on the decoded sample.
Encode ==
    /\ pcmSample # <<>>
    /\ muBack = <<>>
    /\ muBack' = <<MuLawEncode(pcmSample[1])>>
    /\ UNCHANGED <<pcmSample, sendOut>>
    /\ AudioFrame

\* sendPcm16AsMulaw(int16, sampleRate): the resampling, then the loop.
SendPcm16AsMulaw ==
    /\ sendOut = <<>>
    /\ sendOut' = <<SendLoop(0, ResampledLen(sendIn.len, sendIn.rate), sendIn.open)>>
    /\ UNCHANGED <<pcmSample, muBack>>
    /\ AudioFrame

NextAudio ==
    \/ Decode
    \/ Encode
    \/ SendPcm16AsMulaw

\* A session whose peer sends 20 ms frames (160 samples), as Twilio does.
NextCallFrames ==
    \/ \E d \in Delays : Advance(d)
    \/ MediaEvent(FRAME_SAMPLES)
    \/ StopEvent
    \/ Tick
    \/ \E text \in Transcripts : SttReturn(text)
    \/ \E ok \in BOOLEAN : AgentReturn(ok)
    \/ \E audio \in TtsSamples \cup {NoAudio} : TtsReturn(audio)
    \/ SpeechTimer
    \/ Close

\* A session whose peer also sends malformed events.
NextCallLoose ==
    \/ NextCall
    \/ \E kind \in MalformedKinds : MalformedEvent(kind)

\* The tool server, beside a session that never starts.
InitServer ==
    /\ InitMcp
    /\ InitAudioIdle
    /\ InitAgent
    /\ InitCall
    /\ limits = [frames |-> MaxFrames, advances |-> MaxAdvances]

\* A session, beside an idle tool server whose output schema accepts all.
InitShort ==
    /\ InitMcp
    /\ InitAudioIdle
    /\ InitAgent
    /\ schemaOutOk = ConfIds
    /\ InitCall
    /\ limits = [frames |-> MaxFrames, advances |-> MaxAdvances]

\* The same, for a longer call.
InitDeep ==
    /\ InitMcp
    /\ InitAudioIdle
    /\ InitAgent
    /\ schemaOutOk = ConfIds
    /\ InitCall
    /\ limits = [frames |-> DeepFrames, advances |-> DeepAdvances]

\* A new agent, beside an idle tool server and a session that never starts.
InitLife ==
    /\ InitMcp
    /\ InitAudioIdle
    /\ InitNewAgent
    /\ schemaOutOk = ConfIds
    /\ InitCall
    /\ limits = [frames |-> MaxFrames, advances |-> MaxAdvances]

\* A connection just accepted: the agent is new, no listener is registered
\* and no interval is set.
InitSetup ==
    /\ InitMcp
    /\ InitAudioIdle
    /\ InitNewAgent
    /\ schemaOutOk = ConfIds
    /\ limits = [frames |-> MaxFrames, advances |-> MaxAdvances]
    /\ now = ConnectTime
    /\ advances = 0
    /\ wsState = "open"
    /\ streamSid = Null
    /\ pcmBuffer = <<>>
    /\ lastMediaAt = 0
    /\ firstMediaAt = 0
    /\ processing = FALSE
    /\ aiSpeaking = FALSE
    /\ aiSpeakingTimeout = NoTimer
    /\ intervalOn = FALSE
    /\ tickDue = FALSE
    /\ pc = "none"
    /\ samples = <<>>
    /\ inbound = <<>>
    /\ stopSeen = FALSE
    /\ turns = 0
    /\ firedBy = "none"
    /\ sttCalls = <<>>
    /\ transcript = <<>>
    /\ outbound = <<>>
    /\ replyNo = 0
    /\ speechEnd = <<>>
    /\ bargeFrames = <<>>

\* A session whose first turn has just begun to play its reply: the caller's
\* first utterance (4000 samples) was finalized by silence, transcribed,
\* answered, and one second of TTS audio was sent.
InitSpeaking ==
    /\ InitMcp
    /\ InitAudioIdle
    /\ InitAgent
    /\ schemaOutOk = ConfIds
    /\ limits = [frames |-> 1 + SpeakFrames, advances |-> 1 + MaxAdvances]
    /\ now = ConnectTime + MAX_UTTERANCE_MS
    /\ advances = 1
    /\ wsState = "open"
    /\ streamSid = "MZ1"
    /\ pcmBuffer = <<>>
    /\ lastMediaAt = ConnectTime
    /\ firstMediaAt = 0
    /\ processing = FALSE
    /\ aiSpeaking = TRUE
    /\ aiSpeakingTimeout = ConnectTime + MAX_UTTERANCE_MS
                              + DurationMs(TTS_RATE, TTS_RATE) + SPEECH_PAD_MS
    /\ intervalOn = TRUE
    /\ tickDue = FALSE
    /\ pc = "none"
    /\ samples = <<1>>
    /\ inbound = <<[n |-> MIN_AUDIO_SAMPLES, turn |-> "listening",
                    live |-> TRUE, reply |-> 0]>>
    /\ stopSeen = FALSE
    /\ turns = 1
    /\ firedBy = "silence"
    /\ sttCalls = <<(<<1>>)>>
    /\ transcript = <<"user", "agent">>
    /\ outbound = <<[reply |-> 1,
                     frames |-> FramesSent(TTS_RATE, TTS_RATE, "open"),
                     due |-> ConnectTime + MAX_UTTERANCE_MS
                                 + DurationMs(TTS_RATE, TTS_RATE) + SPEECH_PAD_MS]>>
    /\ replyNo = 1
    /\ speechEnd = <<>>
    /\ bargeFrames = <<>>

\* Any byte and any audio to send, beside an idle server and session.
InitAudio ==
    /\ InitMcp
    /\ InitAgent
    /\ schemaOutOk = ConfIds
    /\ InitCall
    /\ limits = [frames |-> MaxFrames, advances |-> MaxAdvances]
    /\ muByte \in Bytes
    /\ pcmSample = <<>>
    /\ muBack = <<>>
    /\ sendIn \in SendInputs
    /\ sendOut = <<>>

SpecMcp == InitServer /\ [][NextMcp]_vars

SpecCall == InitShort /\ [][NextCall]_vars

\* The same session when every external call of a turn (STT, the dialogue
\* agent with its LLM and tool calls, TTS) settles: it resolves or rejects.
SpecCallFair ==
    /\ InitShort
    /\ [][NextCall]_vars
    /\ WF_vars(\E text \in Transcripts : SttReturn(text))
    /\ WF_vars(\E ok \in BOOLEAN : AgentReturn(ok))
    /\ WF_vars(\E audio \in TtsSamples \cup {NoAudio} : TtsReturn(audio))

\* A session from the acceptance of its connection on.
SpecCallSetup == InitSetup /\ [][NextCallSetup]_vars

SpecCallDeep == InitDeep /\ [][NextCall]_vars

SpecCallLoose == InitShort /\ [][NextCallLoose]_vars

\* The agent alone, given utterances by its caller.
SpecAgent == InitShort /\ [][NextAgent]_vars

\* A session from the start of its first reply on, fed 20 ms frames.
SpecCallFrames == InitSpeaking /\ [][NextCallFrames]_vars

\* The audio functions on every byte and on audio of every sample count.
SpecAudio == InitAudio /\ [][NextAudio]_vars

\* The agent alone, over extractions that vary the tool calls' fields.
SpecAgentTools == InitShort /\ [][NextAgentTools]_vars

\* The agent from its construction to its disconnect.
SpecAgentLife == InitLife /\ [][NextAgentLife]_vars

\* =================================================================== claims

\* ---- helpers of the claims
\* The requests whose body passed input validation and reached simulateTool.
Executed == {r \in ReqIds : reqs[r].state = "done" /\ reqs[r].valid}

KeysUsed == {reqs[r].key : r \in Executed}

CreatedFor(k) == {i \in DOMAIN created : created[i].key = k}

CreatedIds == {created[i].id : i \in DOMAIN created}

\* ---- C1
\* C1 as stated: every executed bookAppointment call with key k returns what
\* the first call with k returned, one record is created per key, and the
\* number of distinct confirmation ids equals the number of distinct keys used.
C1_Original ==
    /\ \A r \in Executed :
          /\ Cardinality(CreatedFor(reqs[r].key)) = 1
          /\ \A i \in CreatedFor(reqs[r].key) :
                reqs[r].ret.confirmation_id = created[i].id
    /\ Cardinality(CreatedIds) = Cardinality(KeysUsed)

\* C1 as amended: every executed bookAppointment call with key k returns the
\* result the first call with k created (the same stored result, the same
\* response), exactly one record is created and stored per key used, and the
\* distinct confirmation ids are at most as many as the keys: the id is a
\* random draw that is not checked against the ids already given out.
C1_SameResultPerKey ==
    /\ \A r \in Executed :
          /\ Cardinality(CreatedFor(reqs[r].key)) = 1
          /\ \A i \in CreatedFor(reqs[r].key) :
                /\ reqs[r].ret.confirmation_id = created[i].id
                /\ reqs[r].ret = bookingStore[reqs[r].key]
          /\ \A q \in Executed :
                reqs[q].key = reqs[r].key =>
                    /\ reqs[q].ret = reqs[r].ret
                    /\ reqs[q].status = reqs[r].status
                    /\ reqs[q].body = reqs[r].body
    /\ DOMAIN bookingStore = KeysUsed
    /\ Len(created) = Cardinality(KeysUsed)
    /\ Cardinality(CreatedIds) <= Cardinality(KeysUsed)

\* Two calls with one key, one after the other, and a call with another key.
C1_Witness ==
    \E r1, r2, r3 \in Executed :
        /\ r1 # r2
        /\ reqs[r1].key = reqs[r2].key
        /\ {r1, r2} \notin overlap
        /\ reqs[r3].key # reqs[r1].key

\* ---- C2
\* C2: requests with one idempotency key that were in flight together all get
\* the same confirmation, and exactly one record exists for the key, whatever
\* the order in which their handlers ran.
C2_ConcurrentSameKey ==
    \A p \in overlap :
        \A r1, r2 \in p :
            (r1 \in Executed /\ r2 \in Executed) =>
                /\ reqs[r1].ret = reqs[r2].ret
                /\ reqs[r1].status = reqs[r2].status
                /\ reqs[r1].body = reqs[r2].body
                /\ Cardinality(CreatedFor(reqs[r1].key)) = 1
                /\ bookingStore[reqs[r1].key] = reqs[r1].ret

\* Three requests with one key were in flight at once and all were answered.
C2_Witness ==
    \E r1, r2, r3 \in Executed :
        /\ r1 # r2 /\ r2 # r3 /\ r1 # r3
        /\ {r1, r2} \in overlap
        /\ {r2, r3} \in overlap
        /\ {r1, r3} \in overlap

\* ---- helpers of the session's claims
\* A step that is one callback of the interval.
TickStep == tickDue /\ ~tickDue' /\ intervalOn'

\* A step in which processUtterance passed its guard and took the buffer.
Finalizes == turns' = turns + 1

\* A step that handles a media frame while the AI speaks and brings the audio
\* accumulated since playback began over the barge-in threshold.
BargeInStep ==
    /\ aiSpeaking
    /\ Len(inbound') = Len(inbound) + 1
    /\ SumSamples(inbound', Append(pcmBuffer, Len(inbound'))) > BARGE_IN_THRESHOLD

IsPrefix(p, q) == Len(p) <= Len(q) /\ SubSeq(q, 1, Len(p)) = p

RECURSIVE SpokenOver(_, _, _)
\* The ids, in arrival order, of the frames i..Len(frames) received while
\* reply r was playing.
SpokenOver(frames, r, i) ==
    IF i > Len(frames) THEN <<>>
    ELSE IF frames[i].turn = "speaking" /\ frames[i].reply = r
         THEN <<i>> \o SpokenOver(frames, r, i + 1)
         ELSE SpokenOver(frames, r, i + 1)

\* The frames of every buffer handed to STT so far.
HandedToStt == UNION {{sttCalls[i][j] : j \in DOMAIN sttCalls[i]} : i \in DOMAIN sttCalls}

Buffered == {pcmBuffer[j] : j \in DOMAIN pcmBuffer}

\* ---- C3
\* C3 as stated: at a tick in the listening state, processUtterance is
\* triggered iff the silence exceeds SILENCE_MS or the utterance span exceeds
\* MAX_UTTERANCE_MS.
C3_Original ==
    [][(TickStep /\ TurnState = "listening") =>
          (Finalizes <=>
              \/ now - lastMediaAt > SILENCE_MS
              \/ (firstMediaAt # 0 /\ now - firstMediaAt > MAX_UTTERANCE_MS))]_vars

\* C3 as amended: at a tick in the listening state, processUtterance is
\* triggered iff the utterance buffer is not empty and either now - lastMediaAt
\* exceeds SILENCE_MS or firstMediaAt is set and now - firstMediaAt exceeds
\* MAX_UTTERANCE_MS.
C3_FinalizeIffBufferAndThreshold ==
    [][(TickStep /\ TurnState = "listening") =>
          (Finalizes <=>
              /\ pcmBuffer # <<>>
              /\ \/ now - lastMediaAt > SILENCE_MS
                 \/ (firstMediaAt # 0 /\ now - firstMediaAt > MAX_UTTERANCE_MS))]_vars

\* A turn was finalized by the utterance cap while frames kept coming.
C3_Witness == firedBy = "max" /\ now - lastMediaAt <= SILENCE_MS /\ turns > 0

\* ---- C4
\* C4: every buffer handed to STT holds at least MIN_AUDIO_SAMPLES samples, and
\* a finalization of a shorter buffer discards it, calls no STT, adds nothing
\* to the transcript, sends nothing and leaves the session listening.
C4_ShortUtteranceDiscarded ==
    /\ [](\A i \in DOMAIN sttCalls :
              SumSamples(inbound, sttCalls[i]) >= MIN_AUDIO_SAMPLES)
    /\ [][(Finalizes /\ SumSamples(inbound, pcmBuffer) < MIN_AUDIO_SAMPLES) =>
              /\ pcmBuffer' = <<>>
              /\ pc' = "none"
              /\ TurnState' = "listening"
              /\ UNCHANGED <<sttCalls, transcript, outbound>>]_vars

\* A finalization took a buffer below the floor, and nothing was transcribed.
C4_Witness ==
    /\ turns > 0
    /\ samples # <<>>
    /\ SumSamples(inbound, samples) < MIN_AUDIO_SAMPLES
    /\ sttCalls = <<>>

\* ---- C5
\* C5: the frame that brings the audio accumulated during speaking over the
\* barge-in threshold leaves aiSpeaking false, no speech-finished timer
\* pending and the session listening; and no frame of a reply is sent once it
\* has been interrupted.
C5_BargeInStopsSpeech ==
    /\ [][BargeInStep =>
              /\ ~aiSpeaking'
              /\ aiSpeakingTimeout' = NoTimer
              /\ TurnState' = "listening"]_vars
    /\ [][\A r \in DOMAIN speechEnd :
              speechEnd[r] = "barge" =>
                  /\ r \in DOMAIN outbound
                  /\ \A k \in DOMAIN outbound' :
                        outbound'[k].reply = r =>
                            k \in DOMAIN outbound /\ outbound'[k] = outbound[k]]_vars

\* The caller has interrupted a reply whose frames had gone out.
C5_Witness ==
    \E r \in DOMAIN speechEnd :
        /\ speechEnd[r] = "barge"
        /\ outbound[r].frames > 0
        /\ ~aiSpeaking

C7_Claim ==
    \A id \in HandedToStt :
        ~(/\ inbound[id].turn = "speaking"
          /\ inbound[id].reply \in DOMAIN speechEnd
          /\ speechEnd[inbound[id].reply] = "timer")

\* ---- C8
\* C8 as stated: a frame received while the session is thinking is dropped: it
\* is neither in the utterance buffer nor in any buffer handed to STT.
C8_Claim ==
    \A id \in Buffered \cup HandedToStt : inbound[id].turn # "thinking"

\* ---- C9
\* C9 as stated: a frame that arrives before the start event or after the stop
\* event is discarded: it is neither buffered nor handed to STT.
C9_Claim ==
    \A id \in Buffered \cup HandedToStt : inbound[id].live

\* ---- C10
\* C10 as stated: once the socket has closed no timer of the session is
\* pending and no callback of the session runs: its state, its STT calls, its
\* transcript and its outbound audio stay as they were at the close.
C10_Claim ==
    [][wsState = "closed" => UNCHANGED <<sessionVars, historyVars>>]_vars

\* ---- C11
\* C11 as stated: the teardown of a call writes the session record to the
\* audit sink exactly once, never zero times and never twice.
C11_Claim == wsState = "closed" => auditWrites = 1

\* ---- helpers of the agent's claims
\* A step in which an extraction was parsed and merged.
MergeStep == apc = "extract" /\ extracted' # <<>>

\* A step in which the extraction failed (the call rejected or its content
\* did not parse).
ExtractionFailStep == apc = "extract" /\ apc' # "extract" /\ extracted' = <<>>

\* The tool trace's entries of one tool.
TraceOf(tool) == {i \in DOMAIN toolTrace : toolTrace[i].tool = tool}

Recorded(intent) == \E i \in DOMAIN intents : intents[i] = intent

\* ---- C12
\* C12 as stated: a slot that holds a non-null value is not reset by any later
\* turn: over any sequence of turns a populated slot stays populated.
C12_Claim ==
    [][\A k \in SlotNames : Truthy(slots[k]) => Truthy(slots'[k])]_vars

\* ---- C13
\* C13 as stated, in the case it stresses: once patient_first holds a non-null
\* value, a later turn whose extraction yields a non-null value for it leaves
\* it as it was.
C13_Claim ==
    [][(/\ MergeStep
        /\ Truthy(slots["patient_first"])
        /\ Truthy(extracted'[1].patient_first))
          => slots'["patient_first"] = slots["patient_first"]]_vars

\* ---- C15
\* C15 as stated, for the coverage check: in the turn whose merge makes payer
\* and plan both present in the accumulated slots, and whose extraction asks
\* for a coverage check, checkInsuranceCoverage is invoked.
C15_Claim ==
    [][(/\ MergeStep
        /\ extracted'[1].needs_coverage_check
        /\ Truthy(slots'["payer"]) /\ Truthy(slots'["plan"])
        /\ ~(Truthy(slots["payer"]) /\ Truthy(slots["plan"])))
          => apc' = "coverage"]_vars

\* ---- C16
\* C16 as stated: the tool trace holds at most one entry per recorded intent:
\* a tool whose intent is recorded is not invoked again.
C16_Claim ==
    /\ Recorded("coverage_check") =>
           Cardinality(TraceOf("check_insurance_coverage")) <= 1
    /\ Recorded("availability") =>
           Cardinality(TraceOf("get_provider_availability")) <= 1

\* ---- C18
\* C18: a failed extraction leaves slots, intents and tool trace as they were
\* and takes the turn on to generateResponse; the rest of the turn touches
\* none of the three, and appends the reply to the transcript when
\* generateResponse resolves.
C18_ExtractionFailureNonFatal ==
    /\ [][ExtractionFailStep =>
              /\ UNCHANGED <<slots, intents, toolTrace>>
              /\ apc' = "generate"]_vars
    /\ [][apc = "generate" =>
              /\ UNCHANGED <<slots, intents, toolTrace>>
              /\ apc' \in {"generate", "idle"}
              /\ transcript' \in {transcript, Append(transcript, "agent")}]_vars

\* A turn whose extraction failed (no slot was ever merged) ended with the
\* reply in the transcript.
C18_Witness ==
    /\ agentTurns >= 1
    /\ apc = "idle"
    /\ slots["location_id"] = Undefined
    /\ transcript # <<>>
    /\ transcript[Len(transcript)] = "agent"

\* ---- C14
\* C14: a request whose body fails input validation is answered 400 with the
\* structured rejection, simulateTool is not called for it (it has no result)
\* and its handler leaves the booking store and its records as they were.
C14_InvalidInputRejected ==
    /\ [](\A r \in ReqIds :
              (reqs[r].state = "done" /\ ~reqs[r].valid) =>
                  /\ reqs[r].status = 400
                  /\ reqs[r].body = "errors"
                  /\ reqs[r].ret = Null)
    /\ [][\A r \in ReqIds :
              (/\ reqs[r].state = "inflight"
               /\ ~reqs[r].valid
               /\ reqs'[r].state = "done") =>
                  UNCHANGED <<bookingStore, created>>]_vars

\* A rejected request carried a key that another request has booked.
C14_Witness ==
    \E r \in ReqIds :
        /\ reqs[r].state = "done"
        /\ ~reqs[r].valid
        /\ reqs[r].status = 400
        /\ reqs[r].key \in DOMAIN bookingStore

\* ---- C17
\* C17 as stated, for the failures the session can tell apart (the agent's
\* reply generation rejects, textToAudio returns null): the step that ends the
\* failed turn sends a fallback reply.
C17_Claim ==
    [][(AgentReturn(FALSE) \/ TtsReturn(NoAudio)) =>
           Len(outbound') > Len(outbound)]_vars

\* ---- C20
\* C20: when transcribePcm16 returns a text shorter than MIN_TEXT_LEN (the
\* empty text included), agent.processUtterance is not called, transcript and
\* tool trace stay as they were, nothing is sent, and the session is listening
\* again: neither processing nor speaking.
C20_ShortTranscriptDiscarded ==
    [][\A text \in Transcripts :
          (Len(text) < MIN_TEXT_LEN /\ SttReturn(text)) =>
              /\ pc' = "none"
              /\ ~processing' /\ ~aiSpeaking'
              /\ Truthy(streamSid) => TurnState' = "listening"
              /\ UNCHANGED <<transcript, toolTrace, intents, outbound, replyNo,
                             agentTurns>>]_vars

\* The one utterance handed to STT came back too short: the turn is over and
\* the transcript is empty.
C20_Witness ==
    /\ Len(sttCalls) = 1
    /\ pc = "none"
    /\ transcript = <<>>
    /\ TurnState = "listening"

\* ---- C19
\* C19 as stated: a malformed inbound event changes nothing of the session:
\* buffer, timestamps, flags, timers and pipeline stay as they were, and
\* streamSid keeps its value (an unset streamSid stays unset).
C19_Claim ==
    [][dropped' # dropped =>
           /\ UNCHANGED <<wsState, pcmBuffer, lastMediaAt, firstMediaAt,
                          processing, aiSpeaking, aiSpeakingTimeout, intervalOn,
                          tickDue, pc, samples>>
           /\ \/ streamSid' = streamSid
              \/ ~Truthy(streamSid) /\ ~Truthy(streamSid')]_vars

\* ---- C30
\* C30 as stated: the handler of a bookAppointment request that is answered
\* with an error (400 or 500) leaves the booking store as it was.
C30_Claim ==
    [][\A r \in ReqIds :
          (/\ reqs[r].state = "inflight"
           /\ reqs'[r].state = "done"
           /\ reqs'[r].status \in {400, 500}) =>
              bookingStore' = bookingStore]_vars

\* ---- helpers of the agent's tool-call claims
\* The turn in flight has parsed its extraction and is past its tool calls.
TurnSettled == apc = "generate" /\ extracted # <<>>

\* A field of the extraction that is present and not null.
NonNull(v) == v # Null /\ v # Undefined

\* The endpoint of the tool failed to answer a call of this turn.
Unanswered(tool) ==
    \E i \in DOMAIN calls : calls[i].tool = tool /\ calls[i].outcome = "unreachable"

\* ---- C22
\* C22 as stated: once the tool calls of a turn are over, if its extraction
\* reports needs_coverage_check with non-null payer and plan and the coverage
\* endpoint did not fail to answer, the intents include coverage_check and the
\* tool trace has a check_insurance_coverage entry; likewise for
\* needs_availability with a non-null location_id and get_provider_availability.
C22_Original ==
    TurnSettled =>
        LET e == extracted[1] IN
        /\ (/\ e.needs_coverage_check
            /\ NonNull(e.payer) /\ NonNull(e.plan)
            /\ ~Unanswered("check_insurance_coverage")) =>
               /\ Recorded("coverage_check")
               /\ TraceOf("check_insurance_coverage") # {}
        /\ (/\ e.needs_availability
            /\ NonNull(e.location_id)
            /\ ~Unanswered("get_provider_availability")) =>
               TraceOf("get_provider_availability") # {}

\* C22, amended: the same with payer, plan and location_id non-empty strings
\* (JavaScript-truthy) instead of merely non-null; the availability call is
\* made whether or not a coverage call came before it.
C22_ToolCallsRecorded ==
    TurnSettled =>
        LET e == extracted[1] IN
        /\ (/\ e.needs_coverage_check
            /\ e.payer \notin {Null, Undefined, ""}
            /\ e.plan \notin {Null, Undefined, ""}
            /\ ~Unanswered("check_insurance_coverage")) =>
               /\ Recorded("coverage_check")
               /\ \E i \in TraceOf("check_insurance_coverage") :
                      i > Len(toolTrace) - Len(calls)
        /\ (/\ e.needs_availability
            /\ e.location_id \notin {Null, Undefined, ""}
            /\ ~Unanswered("get_provider_availability")) =>
               /\ Recorded("availability")
               /\ \E i \in TraceOf("get_provider_availability") :
                      i > Len(toolTrace) - Len(calls)

\* A first turn asked for both tools with all fields given, and both answered.
C22_Witness ==
    /\ TurnSettled
    /\ agentTurns = 1
    /\ extracted[1].needs_coverage_check /\ extracted[1].needs_availability
    /\ extracted[1].payer = "Delta" /\ extracted[1].plan = "PPO"
    /\ extracted[1].location_id = "LOC1"
    /\ Len(calls) = 2
    /\ calls[1].outcome = "ok" /\ calls[2].outcome = "rejected"
    /\ Len(toolTrace) = 2
    /\ toolTrace[1].tool = "check_insurance_coverage"
    /\ toolTrace[2].tool = "get_provider_availability"

\* ---- C23
\* The payer name holds none of the keywords the coverage tool accepts.
Unsupported(payer) == ~\E w \in {"delta", "blue", "dental"} : Includes(payer, w)

\* The turn in flight asked for a coverage check of an unsupported payer.
DeniedTurn ==
    /\ TurnSettled
    /\ extracted[1].needs_coverage_check
    /\ Truthy(extracted[1].payer) /\ Truthy(extracted[1].plan)
    /\ Unsupported(extracted[1].payer)

\* The entries the turn in flight pushed to the tool trace.
TraceOfTurn == {i \in DOMAIN toolTrace : i > Len(toolTrace) - Cardinality(
                   {j \in DOMAIN calls : calls[j].outcome # "unreachable"})}

\* No book_appointment call is in flight or on record.
NoBookingCall ==
    /\ apc \in {"idle", "extract", "coverage", "availability", "generate"}
    /\ \A i \in DOMAIN toolTrace : toolTrace[i].tool # "book_appointment"
    /\ \A i \in DOMAIN calls : calls[i].tool # "book_appointment"
    /\ ~Recorded("book_appointment")

C24_TranscriptAppendOnly ==
    [][/\ IsPrefix(transcript, transcript')
       /\ apc = "idle" => transcript' = Append(transcript, "user")
       /\ apc \notin {"idle", "generate"} => transcript' = transcript
       /\ apc = "generate" =>
              IF returned' = returned + 1
              THEN /\ transcript' = Append(transcript, "agent")
                   /\ transcript[Len(transcript)] = "user"
              ELSE transcript' = transcript /\ returned' = returned
       /\ Len(transcript') >= 2 * returned'
       /\ \A i \in DOMAIN transcript' :
              transcript'[i] = "agent" => i > 1 /\ transcript'[i - 1] = "user"
      ]_vars

\* Two calls have returned.
C24_Witness ==
    /\ returned = 2
    /\ apc = "idle"
    /\ transcript = <<"user", "agent", "user", "agent">>

\* ---- C21
\* C21: the step that completes agent.connect() leaves connected = true and
\* roomName = "call-<callId>", however the room service ended; the name stays.
C21_ConnectAlwaysCompletes ==
    [][/\ (cpc # "done" /\ cpc' = "done") =>
              /\ connected'
              /\ roomName' = "call-" \o CallId
       /\ cpc = "done" => roomName' = "call-" \o CallId /\ cpc' = "done"
      ]_vars

\* connect() has completed through its catch and the agent has taken a turn.
C21_Witness ==
    /\ cpc = "done"
    /\ roomOutcome = "novalue"
    /\ connected
    /\ roomName = "call-c-7f3a"
    /\ returned = 1

\* ---- C27
\* C27: the turn state moves only along idle -> listening -> thinking ->
\* speaking -> listening: thinking is entered only from listening and only by
\* a callback of the interval; speaking is entered only from thinking, by the
\* step in which TTS returned audio and it was sent; speaking is left only to
\* listening, by the speech-finished timer or by barge-in; idle is left only
\* to listening; a finalization starts only while listening.
C27_TurnStateCycle ==
    [][/\ (TurnState # "thinking" /\ TurnState' = "thinking") =>
              TurnState = "listening" /\ TickStep /\ Finalizes
       /\ (TurnState # "speaking" /\ TurnState' = "speaking") =>
              /\ TurnState = "thinking"
              /\ pc = "tts"
              /\ Len(outbound') = Len(outbound) + 1
       /\ (TurnState = "speaking" /\ TurnState' # "speaking") =>
              /\ TurnState' = "listening"
              /\ Len(speechEnd') = Len(speechEnd) + 1
              /\ speechEnd'[Len(speechEnd')] \in {"timer", "barge"}
       /\ (TurnState = "idle" /\ TurnState' # "idle") => TurnState' = "listening"
       /\ (TurnState = "thinking" /\ TurnState' # "thinking") =>
              TurnState' \in {"listening", "speaking"}
       /\ Finalizes => TurnState = "listening"
       /\ ~(processing' /\ aiSpeaking')
      ]_vars

\* The cycle has been run through twice: the first reply was ended by
\* barge-in, the second is playing.
C27_Witness ==
    /\ TurnState = "speaking"
    /\ replyNo = 2
    /\ Len(speechEnd) = 1
    /\ speechEnd[1] = "barge"

\* ---- C28
\* C28: at most one turn pipeline is in flight: a finalization starts only
\* when none is in flight, processing is true for as long as one is, and a
\* callback of the interval that finds processing true starts nothing and
\* leaves the buffer as it is.
C28_OnePipeline ==
    [][/\ Finalizes => pc = "none" /\ ~processing
       /\ pc' # "none" => processing'
       /\ (TickStep /\ processing) =>
              UNCHANGED <<pcmBuffer, pc, samples, sttCalls, turns, processing,
                          firstMediaAt>>
      ]_vars

\* A pipeline is in flight, audio is buffered, the silence threshold has
\* passed, and the callback of the interval has just run.
C28_Witness ==
    /\ wsState = "open"
    /\ processing
    /\ pc = "agent"
    /\ pcmBuffer # <<>>
    /\ ~tickDue
    /\ now - lastMediaAt > SILENCE_MS
    /\ turns = 1

\* ---- C29
\* The state in which SpecCallFrames starts, as SpecCall reaches it.
ReachesInitSpeaking ==
    /\ now = ConnectTime + MAX_UTTERANCE_MS /\ advances = 1
    /\ wsState = "open" /\ streamSid = "MZ1" /\ pcmBuffer = <<>>
    /\ lastMediaAt = ConnectTime /\ firstMediaAt = 0
    /\ ~processing /\ aiSpeaking
    /\ aiSpeakingTimeout = ConnectTime + MAX_UTTERANCE_MS + 1000 + SPEECH_PAD_MS
    /\ intervalOn /\ ~tickDue /\ pc = "none" /\ samples = <<1>>
    /\ inbound = <<[n |-> 4000, turn |-> "listening", live |-> TRUE, reply |-> 0]>>
    /\ ~stopSeen /\ turns = 1 /\ firedBy = "silence" /\ sttCalls = <<(<<1>>)>>
    /\ transcript = <<"user", "agent">>
    /\ outbound = <<[reply |-> 1, frames |-> 50,
                     due |-> ConnectTime + MAX_UTTERANCE_MS + 1000 + SPEECH_PAD_MS]>>
    /\ replyNo = 1 /\ speechEnd = <<>> /\ bargeFrames = <<>>

\* A step in which barge-in fired.
BargeInFired == speechEnd' = Append(speechEnd, "barge")

\* A step that handles a media frame.
MediaStep == Len(inbound') = Len(inbound) + 1

\* C29: barge-in fires on a media frame received while the AI speaks, exactly
\* when the audio received since the reply began to play exceeds 3200 samples;
\* with 160-sample frames that is the 21st frame of the speaking period, not
\* the 20th; a frame received outside speaking changes nothing of the speaking
\* state.
C29_BargeInOn21stFrame ==
    [][LET heard == SpokenOver(inbound', replyNo, 1) IN
       /\ BargeInFired <=>
              /\ MediaStep
              /\ aiSpeaking
              /\ SumSamples(inbound', heard) > 3200
       /\ BargeInFired => Len(heard) = 21 /\ ~aiSpeaking'
       /\ (MediaStep /\ aiSpeaking /\ Len(heard) <= 20) =>
              aiSpeaking' /\ aiSpeakingTimeout' = aiSpeakingTimeout
       /\ (MediaStep /\ ~aiSpeaking) =>
              UNCHANGED <<aiSpeaking, aiSpeakingTimeout, speechEnd>>
      ]_vars

\* The 21st frame of the first reply's speaking period has fired barge-in,
\* and frames have arrived since, outside speaking.
C29_Witness ==
    /\ speechEnd = <<"barge">>
    /\ Len(SpokenOver(inbound, 1, 1)) = 21
    /\ Len(inbound) = 24
    /\ ~aiSpeaking

\* ---- C25
\* C25 as stated: for each of the 256 byte values, decoding the byte and
\* encoding the sample gives the byte back.
C25_Original ==
    muBack # <<>> => muBack[1] = muByte

\* C25, amended: the round trip gives the byte back for every byte but 0x7F
\* (negative zero), which decodes to the sample 0 as 0xFF does and comes back
\* as 0xFF; every decoded sample is a 16-bit value.
C25_RoundTripButNegativeZero ==
    /\ pcmSample # <<>> => pcmSample[1] \in -32768 .. 32767
    /\ pcmSample # <<>> => (pcmSample[1] = 0 <=> muByte \in {127, 255})
    /\ muBack # <<>> => muBack[1] = (IF muByte = 127 THEN 255 ELSE muByte)

\* The loudest negative byte has been decoded and encoded back.
C25_Witness ==
    /\ muByte = 0
    /\ pcmSample = <<-32124>>
    /\ muBack = <<0>>

\* ---- C26
\* C26: with the socket open, sendPcm16AsMulaw sends exactly floor(n / 160)
\* frames for n resampled samples, and the j-th frame sent (counting from 0)
\* carries the samples 160j .. 160j + 159: every complete frame once, in order.
C26_WholeFramesInOrder ==
    (sendOut # <<>> /\ sendIn.open) =>
        LET n == ResampledLen(sendIn.len, sendIn.rate)
            frames == sendOut[1]
        IN  /\ Len(frames) = n \div 160
            /\ \A j \in 0 .. Len(frames) - 1 :
                   frames[j + 1] = [first |-> 160 * j, last |-> 160 * j + 159]

\* 1437 samples at 24 kHz, resampled to 479, have been sent over an open
\* socket as two frames; the 159 samples left over are not sent.
C26_Witness ==
    /\ sendIn = [len |-> 1437, rate |-> 24000, open |-> TRUE]
    /\ sendOut = <<(<<[first |-> 0, last |-> 159], [first |-> 160, last |-> 319]>>)>>

\* ---- C37
\* C37: after every step, coverage_check is among the intents exactly if the
\* tool trace has a check_insurance_coverage entry, availability exactly if it
\* has a get_provider_availability entry, no intent occurs twice, and the tool
\* trace and the intents have only been appended to.
C37_IntentsAgreeWithTrace ==
    [][/\ (\E i \in DOMAIN intents' : intents'[i] = "coverage_check") <=>
              (\E i \in DOMAIN toolTrace' :
                   toolTrace'[i].tool = "check_insurance_coverage")
       /\ (\E i \in DOMAIN intents' : intents'[i] = "availability") <=>
              (\E i \in DOMAIN toolTrace' :
                   toolTrace'[i].tool = "get_provider_availability")
       /\ \A i, j \in DOMAIN intents' : intents'[i] = intents'[j] => i = j
       /\ IsPrefix(toolTrace, toolTrace')
       /\ IsPrefix(intents, intents')
      ]_vars

\* Both tools have been called in each of two turns: four trace entries, two
\* intents.
C37_Witness ==
    /\ Len(toolTrace) = 4
    /\ Cardinality(TraceOf("check_insurance_coverage")) = 2
    /\ Cardinality(TraceOf("get_provider_availability")) = 2
    /\ intents = <<"coverage_check", "availability">>

\* ---- C31
\* C31: every tool call issued carries its required fields: a
\* check_insurance_coverage call a payer and a plan that are present and not
\* null, a get_provider_availability call such a location_id and an
\* appointment_type, which is the extracted one when that is a non-empty
\* string and "cleaning" otherwise; a tool call is in flight only in such a
\* turn.
C31_RequiredFieldsPresent ==
    /\ apc = "coverage" =>
           NonNull(extracted[1].payer) /\ NonNull(extracted[1].plan)
    /\ apc = "availability" => NonNull(extracted[1].location_id)
    /\ \A i \in DOMAIN calls :
           LET in == calls[i].input IN
           IF calls[i].tool = "check_insurance_coverage"
           THEN /\ NonNull(in.payer) /\ NonNull(in.plan)
                /\ in.payer = extracted[1].payer /\ in.plan = extracted[1].plan
           ELSE /\ NonNull(in.location_id)
                /\ in.location_id = extracted[1].location_id
                /\ NonNull(in.appointment_type)
                /\ in.appointment_type =
                       (IF extracted[1].appointment_type \in {Undefined, Null, ""}
                        THEN "cleaning" ELSE extracted[1].appointment_type)

\* Both tools have been called in one turn whose extraction had no
\* appointment type: the availability call went out with "cleaning".
C31_Witness ==
    /\ Len(calls) = 2
    /\ calls[1].tool = "check_insurance_coverage"
    /\ calls[1].input.payer = "Delta" /\ calls[1].input.plan = "PPO"
    /\ calls[2].tool = "get_provider_availability"
    /\ calls[2].input.location_id = "LOC1"
    /\ calls[2].input.appointment_type = "cleaning"
    /\ extracted[1].appointment_type = Null

\* ---- C32
\* A step in which the speech-finished timeout's callback ran.
TimerStep == speechEnd' = Append(speechEnd, "timer")

\* C32: the step that sets aiSpeaking arms the speech-finished timeout, and
\* finds no earlier one pending; after every step aiSpeaking is true exactly
\* if a timeout is pending; while the AI speaks the pending timeout is not
\* replaced; and the timeout that ends a speaking period is the one armed for
\* the reply being played, run at or after its due time; once that time has
\* come the callback can run, whatever the socket and the buffer hold.
C32_SpeakingHasItsTimer ==
    [][/\ (~aiSpeaking /\ aiSpeaking') =>
              /\ aiSpeakingTimeout = NoTimer
              /\ aiSpeakingTimeout' # NoTimer
              /\ replyNo' = replyNo + 1
              /\ outbound'[Len(outbound')].reply = replyNo'
              /\ outbound'[Len(outbound')].due = aiSpeakingTimeout'
       /\ aiSpeaking' <=> aiSpeakingTimeout' # NoTimer
       /\ (aiSpeaking /\ aiSpeaking') => aiSpeakingTimeout' = aiSpeakingTimeout
       /\ TimerStep =>
              /\ aiSpeaking /\ ~aiSpeaking'
              /\ \E k \in DOMAIN outbound :
                     /\ outbound[k].reply = replyNo
                     /\ outbound[k].due = aiSpeakingTimeout
              /\ now >= aiSpeakingTimeout
       /\ (aiSpeaking /\ now >= aiSpeakingTimeout) => ENABLED SpeechTimer
      ]_vars

\* The first reply's timeout was cancelled by barge-in; the second reply is
\* playing with its own timeout pending.
C32_Witness ==
    /\ aiSpeaking
    /\ Len(outbound) = 2
    /\ speechEnd = <<"barge">>
    /\ aiSpeakingTimeout = outbound[2].due
    /\ outbound[2].due # outbound[1].due
    /\ wsState = "open"

\* ---- C36
\* A step in which sendPcm16AsMulaw ran.
SendStep == Len(outbound') = Len(outbound) + 1

\* C36: a run of sendPcm16AsMulaw on a socket that is not open sends no frame,
\* so a reply that becomes ready after the close emits none; on an open socket
\* it sends what its loop sends for the audio; and frames are never counted
\* as sent other than by such a run.
C36_NoFrameOnClosedSocket ==
    [][/\ (SendStep /\ wsState # "open") =>
              outbound'[Len(outbound')].frames = 0
       /\ (SendStep /\ wsState = "open") =>
              \E audio \in TtsSamples :
                  outbound'[Len(outbound')].frames =
                      Len(SendLoop(0, ResampledLen(audio, TTS_RATE), TRUE))
       /\ \A audio \in TtsSamples :
              SendLoop(0, ResampledLen(audio, TTS_RATE), FALSE) = <<>>
       /\ IsPrefix(outbound, outbound')
      ]_vars

\* The socket closed while the turn was in the pipeline; TTS then returned
\* audio and sendPcm16AsMulaw ran without sending a frame.
C36_Witness ==
    /\ wsState = "closed"
    /\ Len(outbound) = 1
    /\ outbound[1].frames = 0
    /\ aiSpeaking

\* ---- C35
\* C35 as stated: the audit written at teardown is the session's final state:
\* once saveAudit has written, the agent's transcript, intents, slots and
\* tool trace are not modified again, also when the socket closed while a
\* turn was in the pipeline.
C35_Claim ==
    [][auditWrites > 0 =>
           UNCHANGED <<transcript, intents, slots, toolTrace>>]_vars

\* ---- C33
\* A step in which processUtterance ended (its finally block ran).
PipelineExit ==
    \/ pc # "none" /\ pc' = "none"
    \/ Finalizes /\ pc' = "none"

\* C33: when every external call settles, a set processing flag is reset in
\* the end; the flag is set exactly while a turn is in the pipeline, every
\* exit of processUtterance (short audio, empty transcript, rejected call,
\* no TTS audio, success) leaves it false with firstMediaAt zero, and a tick
\* that finds the flag false and an utterance due finalizes it.
C33_ProcessingReset ==
    /\ [][/\ processing' <=> pc' # "none"
          /\ PipelineExit => ~processing' /\ firstMediaAt' = 0
          /\ (/\ TickStep
              /\ ~processing
              /\ ~CheckerReturnsEarly(streamSid, aiSpeaking)
              /\ pcmBuffer # <<>>
              /\ FinalizeReason(now, lastMediaAt, firstMediaAt) # "none")
             => Finalizes
         ]_vars
    /\ processing ~> ~processing

\* A first turn left the pipeline and a second utterance was finalized and
\* handed to STT.
C33_Witness ==
    /\ turns = 2
    /\ Len(sttCalls) = 2
    /\ processing
    /\ pc = "stt"

\* ---- C34
\* C34 as stated: no event of the socket is lost: once the setup has
\* completed, a start that arrived while agent.connect() was pending has set
\* streamSid, and a socket that closed meanwhile has had its close handlers
\* run (agent.disconnect, clearInterval).
C34_Claim ==
    cpc = "done" =>
        /\ Missed("start") => streamSid # Null
        /\ wsState = "closed" =>
               /\ ~intervalOn
               /\ ~connected
               /\ auditWrites > 0

====
